---- MODULE Spec2Model ----
(***************************************************************************)
(* Model of the rag_ops core: one Streamlit session running app.main()     *)
(* again and again.  A run either stops at the upload prompt, ingests the  *)
(* uploaded batch (one parse task per file under asyncio.gather, then the  *)
(* chunker and the index build), or serves the chat input through          *)
(* AsyncRAGApp.agenerate_response.                                         *)
(*                                                                         *)
(* Spec follows a session from its construction.  SpecChat follows the     *)
(* conversation of a session that Spec has brought to the ready state, for *)
(* more questions than Spec asks.  SpecShared follows two sessions of one  *)
(* process that build into the same index directory, SpecAsks two asks     *)
(* running at once on one ready session, SpecProbe single calls of the     *)
(* retriever and of the chunker, SpecApi the upload API of api/main.py.    *)
(*                                                                         *)
(* Some definitions come with a faulty variant, defined just before them,  *)
(* that the properties must tell apart from the code's behaviour.          *)
(*                                                                         *)
(* Optional values are sequences of length at most one: <<>> is Python's   *)
(* None, <<v>> is the value v.                                             *)
(***************************************************************************)
EXTENDS Integers, Sequences, FiniteSets, TLC

\* ---------------------------------------------------------------- bounds
MaxFiles == 2        \* largest uploaded batch
MaxAsks == 1         \* questions submitted per session, from construction
MaxHistory == 5      \* questions submitted to a session that is ready
MaxIndex == 4        \* chunks of an index searched on its own
MaxTopK == 4         \* largest top_k passed to the retriever on its own
MaxText == 4         \* longest Document text given to the chunker on its own
MaxUploads == 3      \* upload requests the API accepts

\* ------------------------------------------------------- program constants
TOP_K == 3           \* app.py: retriever.aretrieve(query, top_k=3)
HISTORY_WINDOW == 3  \* app.py: chat_history[-3:]
CHUNK_SIZE == 1500   \* config.py: Config.CHUNK_SIZE
CHUNK_OVERLAP == 200 \* config.py: Config.CHUNK_OVERLAP

PDF == "application/pdf"
CSV == "text/csv"
XLSX == "application/vnd.openxmlformats-officedocument.spreadsheetml.sheet"
PLAIN == "text/plain"

\* ------------------------------------------------------------ input sets
Names == {"n1", "n2"}
Types == {PDF, CSV, XLSX, PLAIN}
Bytes == {"b1", "b2"}
Queries == {"q1", "q2"}
Answers == {"a1"}

\* What a run shows to the user.
WarnUpload == "Please upload files to start chatting!"
NoValidDocuments == "No valid documents were processed."
ErrorProcessing == "Error processing documents"
ErrorGenerating == "Error generating response"

EmptyBytes == "empty"    \* content of a file just opened with mode 'wb'

File(name, type, bytes) == [name |-> name, type |-> type, bytes |-> bytes]

\* The files a user uploads: one of each declared type, two pairs of
\* files that share a name and differ in type and bytes.
UploadedFile ==
    {File("n1", PDF, "b1"), File("n1", CSV, "b2"),
     File("n2", XLSX, "b1"), File("n2", PLAIN, "b2")}

Batches == UNION {[1..n -> UploadedFile] : n \in 0..MaxFiles}

\* The batches the uploader presents to a session that is ready.
ReadyBatches == [1..1 -> UploadedFile]

VARIABLES
    retriever,      \* st.session_state.retriever: <<>> or <<handle>>
    chat_history,   \* st.session_state.chat_history: sequence of <<q, a>>
    messages,       \* st.session_state.messages: sequence of roles
    pc,             \* position of the current script run
    uploaded_files, \* the batch returned by st.sidebar.file_uploader
    prompt,         \* what st.chat_input returned in this run: <<>> or <<q>>
    tasks,          \* the parse tasks of the running ingest, by position
    completed,      \* positions of the parse tasks in completion order
    tmp,            \* the scratch directory /tmp: name -> <<>> or <<file>>
    documents,      \* the Document list handed to asetup_retriever
    doc_chunks,     \* the chunks handed to Chroma.from_documents
    prompt_args,    \* the mapping given to self.prompt.ainvoke
    outcome,        \* what the run showed: st.warning / st.error / answer
    calls,          \* per run: invocations of each stage
    store,          \* the chunks persisted under Config.VECTORSTORE_PATH
    sessions,       \* the browser sessions that share the process
    probe,          \* a direct call of a component, and what it returned
    files_db,       \* api/main.py: files_db, file id -> record
    upload_dir,     \* api/main.py: the files under UPLOAD_DIR, path -> bytes
    clock,          \* datetime.now(), in whole seconds
    response,       \* the last HTTP response of the upload API
    ledger,         \* the successful uploads and deletes so far
    asks            \* ask calls running concurrently on one session

\* The state of one Streamlit session and of its current script run.
appVars == <<retriever, chat_history, messages, pc, uploaded_files, prompt,
             tasks, completed, tmp, documents, doc_chunks, prompt_args,
             outcome, calls>>

\* The state of the upload API process.
apiVars == <<files_db, upload_dir, clock, response, ledger>>

\* Everything outside the single session that Spec and SpecChat follow.
envVars == <<store, sessions, probe, files_db, upload_dir, clock, response,
             ledger, asks>>

vars == <<retriever, chat_history, messages, pc, uploaded_files, prompt,
          tasks, completed, tmp, documents, doc_chunks, prompt_args,
          outcome, calls, store, sessions, probe, files_db, upload_dir,
          clock, response, ledger, asks>>

\* --------------------------------------------------------------- helpers
Min(a, b) == IF a < b THEN a ELSE b

Max(a, b) == IF a > b THEN a ELSE b

\* Python's s[-k:] for k >= 1: the last k elements, or all of s when it
\* has fewer.
LastSlice(s, k) == SubSeq(s, Max(Len(s) - k, 0) + 1, Len(s))

\* Python's s[:k].
FirstSlice(s, k) == SubSeq(s, 1, Min(k, Len(s)))

RECURSIVE Flatten(_)
Flatten(ss) == IF ss = <<>> THEN <<>> ELSE Head(ss) \o Flatten(Tail(ss))

\* ---------------------------------------------------------------- Parser
\* The declared content types aprocess_file has a decoder for.
SupportedTypes == {PDF, CSV, XLSX}

\* The if/elif chain of aprocess_file; its else branch returns None.
\* (Variant: no else branch, every type is decoded.)
SupportedAll(type) == TRUE

Supported(type) == type \in SupportedTypes

\* The three decoders.  Each reads the scratch file and renders text; the
\* text is a function of the decoder and of the bytes it read.
aprocess_pdf(content) == <<"pdf_text", content>>

aprocess_csv(content) == <<"csv_text", content>>

aprocess_excel(content) == <<"excel_text", content>>

\* The dispatch of aprocess_file on the declared content type.
DecodeText(type, content) ==
    IF type = PDF THEN aprocess_pdf(content)
    ELSE IF type = CSV THEN aprocess_csv(content)
    ELSE aprocess_excel(content)

Document(text, file) == [page_content |-> text, file_name |-> file.name]

\* A parse task.  pc is the suspension point the coroutine waits at:
\*   "opening"  awaiting aiofiles.open(temp_file_path, 'wb')
\*   "writing"  awaiting f.write / the close of the async with
\*   "decoding" awaiting run_in_executor, the decoder has not read yet
\*   "decoded"  the executor job has finished, the coroutine has not resumed
\*   "done" (returned), "failed" (raised), "cancelled"
NewTask(file) == [pc |-> "opening", path |-> file.name, inode |-> 0,
                  read |-> <<>>, err |-> FALSE, result |-> <<>>]

Finished == {"done", "failed", "cancelled"}

\* temp_file_path = os.path.join("/tmp", uploaded_file.name)
temp_file_path(i) == tasks[i].path

\* The task's open file object still names the file found at its path.
Linked(i) ==
    /\ tmp[temp_file_path(i)] # <<>>
    /\ tmp[temp_file_path(i)][1].inode = tasks[i].inode

\* finally: if os.path.exists(temp_file_path): os.remove(temp_file_path)
Cleanup(fs, path) == [fs EXCEPT ![path] = <<>>]

TaskSet(i, t) == [tasks EXCEPT ![i] = t]

IngestFrame == UNCHANGED <<envVars, retriever, chat_history, messages, pc,
                           uploaded_files, prompt, documents, doc_chunks,
                           prompt_args, outcome, calls>>

\* aiofiles.open(temp_file_path, 'wb'): creates the file, or truncates the
\* one that is there.
TaskOpen(i) ==
    /\ pc = "gather"
    /\ i \in DOMAIN tasks
    /\ tasks[i].pc = "opening"
    /\ LET path == temp_file_path(i)
           ino == IF tmp[path] = <<>> THEN i ELSE tmp[path][1].inode
       IN /\ tmp' = [tmp EXCEPT ![path] =
                        <<[inode |-> ino, content |-> EmptyBytes]>>]
          /\ tasks' = TaskSet(i, [tasks[i] EXCEPT !.pc = "writing",
                                                  !.inode = ino])
    /\ UNCHANGED completed
    /\ IngestFrame

\* await f.write(uploaded_file.getbuffer()) raises: the exception leaves the
\* async with, which is outside the try/finally, so nothing is removed.
TaskWriteFail(i) ==
    /\ pc = "gather"
    /\ i \in DOMAIN tasks
    /\ tasks[i].pc = "writing"
    /\ tasks' = TaskSet(i, [tasks[i] EXCEPT !.pc = "failed", !.err = TRUE])
    /\ completed' = Append(completed, i)
    /\ UNCHANGED tmp
    /\ IngestFrame

\* The write and the close succeed.  An unsupported type then runs, with no
\* further suspension, `return None` and the finally block; a supported
\* type submits its decoder to the executor.
TaskWrite(i) ==
    /\ pc = "gather"
    /\ i \in DOMAIN tasks
    /\ tasks[i].pc = "writing"
    /\ LET path == temp_file_path(i)
           file == uploaded_files[i]
           written == IF Linked(i)
                      THEN [tmp EXCEPT ![path] =
                              <<[tmp[path][1] EXCEPT !.content = file.bytes]>>]
                      ELSE tmp
       IN IF Supported(file.type)
          THEN /\ tmp' = written
               /\ tasks' = TaskSet(i, [tasks[i] EXCEPT !.pc = "decoding"])
               /\ UNCHANGED completed
          ELSE /\ tmp' = Cleanup(written, path)
               /\ tasks' = TaskSet(i, [tasks[i] EXCEPT !.pc = "done"])
               /\ completed' = Append(completed, i)
    /\ IngestFrame

\* The executor job: fitz.open / pd.read_csv / pd.read_excel on the path.
\* It fails when the path is gone, when the file is empty, and on input the
\* decoder rejects (ok = FALSE).
TaskDecode(i, ok) ==
    /\ pc = "gather"
    /\ i \in DOMAIN tasks
    /\ tasks[i].pc = "decoding"
    /\ LET path == temp_file_path(i)
           readable == tmp[path] # <<>> /\ tmp[path][1].content # EmptyBytes
       IN tasks' = TaskSet(i,
             IF readable /\ ok
             THEN [tasks[i] EXCEPT !.pc = "decoded",
                                   !.read = <<tmp[path][1].content>>]
             ELSE [tasks[i] EXCEPT !.pc = "decoded", !.err = TRUE])
    /\ UNCHANGED <<tmp, completed>>
    /\ IngestFrame

\* The coroutine resumes from run_in_executor: it returns the Document or
\* re-raises the decoder's exception; the finally block runs either way.
TaskResume(i) ==
    /\ pc = "gather"
    /\ i \in DOMAIN tasks
    /\ tasks[i].pc = "decoded"
    /\ LET file == uploaded_files[i]
       IN tasks' = TaskSet(i,
             IF tasks[i].err
             THEN [tasks[i] EXCEPT !.pc = "failed"]
             ELSE [tasks[i] EXCEPT !.pc = "done",
                      !.result = <<Document(DecodeText(file.type,
                                            tasks[i].read[1]), file)>>])
    /\ tmp' = Cleanup(tmp, temp_file_path(i))
    /\ completed' = Append(completed, i)
    /\ IngestFrame

\* ---------------------------------------------------- Chunker and Index
\* RecursiveCharacterTextSplitter.split_documents: every text of the model
\* fits in one chunk, which carries the metadata of its Document.
split_documents(docs) ==
    Flatten([i \in 1..Len(docs) |-> <<docs[i]>>])

\* Chroma.from_documents(documents=doc_chunks, ...): the handle of the
\* index that holds the chunks.
from_documents(chunks) == [chunks |-> chunks]

\* ------------------------------------------------------------- Retriever
\* The similarity the index ranks by: a chunk rendered from bytes "b1" is
\* the closer one to "q1", a chunk rendered from "b2" to "q2".
Similar(query, chunk) ==
    \/ query = "q1" /\ chunk.page_content[2] = "b1"
    \/ query = "q2" /\ chunk.page_content[2] = "b2"

\* vector_db.similarity_search(query, top_k): the top_k closest chunks,
\* closest first.
similarity_search(vector_db, query, top_k) ==
    LET cs == vector_db.chunks
        near == SelectSeq(cs, LAMBDA c : Similar(query, c))
        far == SelectSeq(cs, LAMBDA c : ~Similar(query, c))
    IN FirstSlice(near \o far, top_k)

\* AsyncDocumentRetriever.aretrieve
aretrieve(handle, query, top_k) == similarity_search(handle, query, top_k)

\* ---------------------------------------------------------- Orchestrator
\* asyncio.gather(*tasks): the results in the order of the awaitables it
\* was given, whatever the order they completed in.
\* (Variant: the results in completion order.)
GatherResultsAsCompleted(ts, order) ==
    [k \in 1..Len(order) |-> ts[order[k]].result]

GatherResults(ts, order) == [i \in DOMAIN ts |-> ts[i].result]

\* gather returns once every awaitable has returned.
\* (Variant: once the first has returned.)
GatherDoneAny(ts) == \E i \in DOMAIN ts : ts[i].pc = "done"

GatherDone(ts) == \A i \in DOMAIN ts : ts[i].pc = "done"

\* gather raises the first exception one of its awaitables raised.
GatherFailed(ts) == \E i \in DOMAIN ts : ts[i].pc = "failed"

\* [doc for doc in documents if doc is not None]
\* (Variant: no filter, an absent result becomes an empty document.)
FilterDocumentsKeepAll(results) ==
    [i \in DOMAIN results |->
        IF results[i] = <<>>
        THEN [page_content |-> <<"none", EmptyBytes>>, file_name |-> "none"]
        ELSE results[i][1]]

FilterDocuments(results) ==
    Flatten([i \in DOMAIN results |-> results[i]])

\* chat_history[-3:]
\* (Variant: chat_history[:3].)
HistoryWindowFirst(history) == FirstSlice(history, HISTORY_WINDOW)

HistoryWindow(history) == LastSlice(history, HISTORY_WINDOW)

\* "\n".join(f"Q: {q}\nA: {a}" for q, a in ...)
FormatHistory(pairs) ==
    [i \in 1..Len(pairs) |-> <<"Q: ", pairs[i][1], "A: ", pairs[i][2]>>]

\* "\n".join(doc.page_content for doc in docs)
FormatContext(docs) == [i \in 1..Len(docs) |-> docs[i].page_content]

\* st.session_state.chat_history.append((prompt, response))
\* (Variant: the stored history is itself cut to the last three pairs.)
HistoryAppendCapped(history, q, a) ==
    LastSlice(Append(history, <<q, a>>), HISTORY_WINDOW)

HistoryAppend(history, q, a) == Append(history, <<q, a>>)

\* What main() does after `except Exception` of the ingest block: return.
\* (Variant: no return, the run goes on to the chat.)
AfterIngestErrorFallThrough == "chat"

AfterIngestError == "idle"

\* The session's handle after asetup_retriever raised: the assignment of
\* line 112 never ran.
\* (Variant: the handle of the unfinished index is stored.)
RetrieverAfterFailedBuildPartial(old, chunks) == <<from_documents(<<>>)>>

RetrieverAfterFailedBuild(old, chunks) == old

\* What main() does after `except Exception` of the ask block: st.error.
\* (Variant: the ask is started again.)
AfterAskErrorRetry == "retrieve"

AfterAskError == "idle"

NoCalls == [parse |-> <<>>, build |-> 0, retrieve |-> 0, llm |-> 0]

UserMessages == Len(SelectSeq(messages, LAMBDA m : m[1] = "user"))

\* Files left in /tmp by earlier runs belong to no task of the new run.
Leftover(fs) ==
    [n \in Names |-> IF fs[n] = <<>> THEN <<>>
                     ELSE <<[fs[n][1] EXCEPT !.inode = 0]>>]

\* Nothing outside the session is in use: no other session has ingested,
\* the upload API holds no file, no component is called on its own.
StoreIdle ==
    /\ store = <<>>
    /\ sessions = <<>>

ProbeIdle == probe = <<>>

ApiIdle ==
    /\ files_db = <<>>
    /\ upload_dir = <<>>
    /\ clock = 0
    /\ response = <<>>
    /\ ledger = <<>>

AsksIdle == asks = <<>>

EnvIdle ==
    /\ StoreIdle
    /\ ProbeIdle
    /\ ApiIdle
    /\ AsksIdle

\* The session of a browser tab that has just been opened.
SessionInit ==
    /\ retriever = <<>>
    /\ chat_history = <<>>
    /\ messages = <<>>
    /\ pc = "idle"
    /\ uploaded_files = <<>>
    /\ prompt = <<>>
    /\ tasks = <<>>
    /\ completed = <<>>
    /\ tmp = [n \in Names |-> <<>>]
    /\ documents = <<>>
    /\ doc_chunks = <<>>
    /\ prompt_args = <<>>
    /\ outcome = "none"
    /\ calls = NoCalls

Init ==
    /\ EnvIdle
    /\ SessionInit

\* Lines 87-88: `if "retriever" not in st.session_state:` creates the key
\* with None.  Every later run finds the key and leaves its value alone.
SessionRetrieverReset(r) == <<>>

SessionRetriever(r) == r

\* A script run starts: lines 83-97.  The locals of the previous run are
\* gone.
RunBegin ==
    /\ pc = "idle"
    /\ retriever' = SessionRetriever(retriever)
    /\ prompt' = <<>>
    /\ completed' = <<>>
    /\ documents' = <<>>
    /\ doc_chunks' = <<>>
    /\ prompt_args' = <<>>
    /\ UNCHANGED <<envVars, chat_history, messages>>

\* `if not uploaded_files: st.warning(...); return`
RunNoFiles ==
    /\ RunBegin
    /\ outcome' = WarnUpload
    /\ uploaded_files' = <<>>
    /\ tasks' = <<>>
    /\ calls' = NoCalls
    /\ UNCHANGED <<pc, tmp>>

\* Line 104: `if st.session_state.retriever is None:` guards the whole
\* ingest block.  (Variant: every run with files ingests them.)
NeedsIngestAlways(r) == TRUE

NeedsIngest(r) == r = <<>>

\* `if st.session_state.retriever is None:` aprocess_files creates one
\* parse coroutine per file and hands them to gather.
RunIngest(files) ==
    /\ files # <<>>
    /\ NeedsIngest(retriever)
    /\ RunBegin
    /\ uploaded_files' = files
    /\ tasks' = [i \in DOMAIN files |-> NewTask(files[i])]
    /\ tmp' = Leftover(tmp)
    /\ calls' = [NoCalls EXCEPT !.parse = [i \in DOMAIN files |-> 1]]
    /\ outcome' = "Processing documents..."
    /\ pc' = "gather"

\* The retriever is already set: the run goes straight to the chat, and
\* the batch is not read again after the test of line 99.
RunReady(files) ==
    /\ files # <<>>
    /\ ~NeedsIngest(retriever)
    /\ RunBegin
    /\ uploaded_files' = <<>>
    /\ tasks' = <<>>
    /\ calls' = NoCalls
    /\ outcome' = "none"
    /\ pc' = "chat"
    /\ UNCHANGED tmp

\* The except branch of the ingest block, and then the end of main():
\* asyncio.run cancels the parse tasks that are still pending.  A task
\* cancelled while it awaits the decoder runs its finally block; one
\* cancelled inside the async with does not.
Cancelled(ts) ==
    [i \in DOMAIN ts |-> IF ts[i].pc \in Finished THEN ts[i]
                         ELSE [ts[i] EXCEPT !.pc = "cancelled"]]

CancelCleanup(fs, ts) ==
    [n \in Names |->
        IF \E i \in DOMAIN ts : /\ ts[i].pc \in {"decoding", "decoded"}
                                /\ ts[i].path = n
        THEN <<>> ELSE fs[n]]

\* The locals of the ingest block go out of use.
EndIngest ==
    /\ uploaded_files' = <<>>
    /\ tasks' = <<>>
    /\ completed' = <<>>
    /\ documents' = <<>>
    /\ doc_chunks' = <<>>

GatherRaise ==
    /\ pc = "gather"
    /\ GatherFailed(tasks)
    /\ outcome' = ErrorProcessing
    /\ pc' = AfterIngestError
    /\ tasks' = Cancelled(tasks)
    /\ tmp' = CancelCleanup(tmp, tasks)
    /\ uploaded_files' = <<>>
    /\ completed' = <<>>
    /\ UNCHANGED <<envVars, retriever, chat_history, messages, prompt,
                   documents, doc_chunks, prompt_args, calls>>

\* gather returned: filter, then either the "no valid documents" return or
\* the call of asetup_retriever.
GatherReturn ==
    /\ pc = "gather"
    /\ ~GatherFailed(tasks)
    /\ GatherDone(tasks)
    /\ LET docs == FilterDocuments(GatherResults(tasks, completed))
       IN IF docs = <<>>
          THEN /\ outcome' = NoValidDocuments
               /\ pc' = "idle"
               /\ EndIngest
               /\ UNCHANGED calls
          ELSE /\ documents' = docs
               /\ pc' = "split"
               /\ calls' = [calls EXCEPT !.build = @ + 1]
               /\ UNCHANGED <<outcome, uploaded_files, tasks, completed,
                              doc_chunks>>
    /\ UNCHANGED <<envVars, retriever, chat_history, messages, prompt, tmp,
                   prompt_args>>

\* asetup_vectorstore, first await: the chunker.
SplitDocuments ==
    /\ pc = "split"
    /\ doc_chunks' = split_documents(documents)
    /\ pc' = "embed"
    /\ UNCHANGED <<envVars, retriever, chat_history, messages,
                   uploaded_files, prompt, tasks, completed, tmp, documents,
                   prompt_args, outcome, calls>>

\* asetup_vectorstore, second await: Chroma.from_documents; line 112 stores
\* the retriever.
BuildIndex ==
    /\ pc = "embed"
    /\ retriever' = <<from_documents(doc_chunks)>>
    /\ pc' = "chat"
    /\ outcome' = "none"
    /\ EndIngest
    /\ UNCHANGED <<envVars, chat_history, messages, prompt, tmp,
                   prompt_args, calls>>

\* The chunker or the embedding raises: except branch of the ingest block.
BuildFail ==
    /\ pc \in {"split", "embed"}
    /\ retriever' = RetrieverAfterFailedBuild(retriever, doc_chunks)
    /\ outcome' = ErrorProcessing
    /\ pc' = AfterIngestError
    /\ EndIngest
    /\ UNCHANGED <<envVars, chat_history, messages, prompt, tmp,
                   prompt_args, calls>>

\* Lines 117-130: the chat interface.  st.chat_input returns the question
\* the user submitted, if any (p).  Without one the run ends; with one, the
\* user message is recorded and the ask begins.  At most `limit` questions
\* are submitted.
Chat(p, limit) ==
    /\ pc = "chat"
    /\ p # <<>> => UserMessages < limit
    /\ prompt' = p
    /\ IF p = <<>>
       THEN /\ pc' = "idle"
            /\ UNCHANGED messages
       ELSE /\ messages' = Append(messages, <<"user", p[1]>>)
            /\ pc' = "retrieve"
    /\ UNCHANGED <<envVars, retriever, chat_history, uploaded_files, tasks,
                   completed, tmp, documents, doc_chunks, prompt_args,
                   outcome, calls>>

AskFrame == UNCHANGED <<envVars, retriever, uploaded_files, prompt, tasks,
                        completed, tmp, documents, doc_chunks>>

\* agenerate_response, lines 58-65: the retrieval, then the context and the
\* formatted history.
AskRetrieve ==
    /\ pc = "retrieve"
    /\ retriever # <<>>
    /\ calls' = [calls EXCEPT !.retrieve = @ + 1]
    /\ prompt_args' =
          <<[context |-> FormatContext(aretrieve(retriever[1], prompt[1],
                                                 TOP_K)),
             chat_history |-> FormatHistory(HistoryWindow(chat_history)),
             question |-> prompt[1]]>>
    /\ pc' = "prompt"
    /\ UNCHANGED <<chat_history, messages, outcome>>
    /\ AskFrame

\* The retrieval raises: the search fails, or retriever is None and has no
\* aretrieve.  Line 150 shows the error.
AskRetrieveFail ==
    /\ pc = "retrieve"
    /\ calls' = [calls EXCEPT !.retrieve = @ + 1]
    /\ outcome' = ErrorGenerating
    /\ pc' = AfterAskError
    /\ UNCHANGED <<chat_history, messages, prompt_args>>
    /\ AskFrame

\* await self.prompt.ainvoke(...): the template is rendered.
AskPrompt ==
    /\ pc = "prompt"
    /\ pc' = "llm"
    /\ UNCHANGED <<chat_history, messages, prompt_args, outcome, calls>>
    /\ AskFrame

AskPromptFail ==
    /\ pc = "prompt"
    /\ outcome' = ErrorGenerating
    /\ pc' = AfterAskError
    /\ UNCHANGED <<chat_history, messages, prompt_args, calls>>
    /\ AskFrame

\* await self.llm.ainvoke(...) answers; lines 141-148 show the answer and
\* record it.
AskLLM(a) ==
    /\ pc = "llm"
    /\ calls' = [calls EXCEPT !.llm = @ + 1]
    /\ messages' = Append(messages, <<"assistant", a>>)
    /\ chat_history' = HistoryAppend(chat_history, prompt[1], a)
    /\ outcome' = "answer"
    /\ pc' = "idle"
    /\ UNCHANGED prompt_args
    /\ AskFrame

AskLLMFail ==
    /\ pc = "llm"
    /\ calls' = [calls EXCEPT !.llm = @ + 1]
    /\ outcome' = ErrorGenerating
    /\ pc' = AfterAskError
    /\ UNCHANGED <<chat_history, messages, prompt_args>>
    /\ AskFrame

Optional(S) == {<<>>} \cup {<<x>> : x \in S}

Next ==
    \/ RunNoFiles
    \/ /\ pc = "idle"
       /\ \E files \in Batches : RunIngest(files)
    \/ /\ pc = "idle"
       /\ \E files \in ReadyBatches : RunReady(files)
    \/ \E i \in 1..MaxFiles : TaskOpen(i)
    \/ \E i \in 1..MaxFiles : TaskWrite(i)
    \/ \E i \in 1..MaxFiles : TaskWriteFail(i)
    \/ \E i \in 1..MaxFiles, ok \in BOOLEAN : TaskDecode(i, ok)
    \/ \E i \in 1..MaxFiles : TaskResume(i)
    \/ GatherRaise
    \/ GatherReturn
    \/ SplitDocuments
    \/ BuildIndex
    \/ BuildFail
    \/ \E p \in Optional(Queries) : Chat(p, MaxAsks)
    \/ AskRetrieve
    \/ AskRetrieveFail
    \/ AskPrompt
    \/ AskPromptFail
    \/ \E a \in Answers : AskLLM(a)
    \/ AskLLMFail

Spec == Init /\ [][Next]_vars

\* The conversation of a session that has ingested one PDF and one
\* spreadsheet: the state Spec reaches by RunIngest ... BuildIndex, Chat.
ReadyDocuments ==
    <<Document(aprocess_pdf("b1"), File("n1", PDF, "b1")),
      Document(aprocess_excel("b1"), File("n2", XLSX, "b1"))>>

SessionReady ==
    /\ retriever = <<from_documents(split_documents(ReadyDocuments))>>
    /\ chat_history = <<>>
    /\ messages = <<>>
    /\ pc = "idle"
    /\ uploaded_files = <<>>
    /\ prompt = <<>>
    /\ tasks = <<>>
    /\ completed = <<>>
    /\ tmp = [n \in Names |-> <<>>]
    /\ documents = <<>>
    /\ doc_chunks = <<>>
    /\ prompt_args = <<>>
    /\ outcome = "none"
    /\ calls = [NoCalls EXCEPT !.parse = <<1, 1>>, !.build = 1]

InitChat ==
    /\ EnvIdle
    /\ SessionReady

NextChat ==
    \/ RunNoFiles
    \/ /\ pc = "idle"
       /\ \E files \in ReadyBatches : RunReady(files)
    \/ \E p \in Optional(Queries) : Chat(p, MaxHistory)
    \/ AskRetrieve
    \/ AskRetrieveFail
    \/ AskPrompt
    \/ AskPromptFail
    \/ \E a \in Answers : AskLLM(a)
    \/ AskLLMFail

SpecChat == InitChat /\ [][NextChat]_vars

TypeOK ==
    /\ Len(retriever) <= 1
    /\ pc \in {"idle", "gather", "split", "embed", "chat", "retrieve",
               "prompt", "llm"}
    /\ \A i \in DOMAIN uploaded_files :
          uploaded_files[i] \in [name : Names, type : Types, bytes : Bytes]
    /\ \A i \in DOMAIN chat_history :
          chat_history[i] \in Queries \X Answers
    /\ prompt \in Optional(Queries)
    /\ Len(chat_history) <= MaxHistory

\* ------------------------------------------------- sessions of one process
\* Every browser session runs main() in the same process and builds its
\* index with the same AsyncVectorStore settings: persist_directory is
\* Config.VECTORSTORE_PATH for all of them.  SpecShared follows two sessions
\* through ingest and ask, each build and each retrieval as one step.
Sessions == {"s1", "s2"}

VECTORSTORE_PATH == "./data/vectorstore"

\* The documents a session can hand to asetup_retriever: the decoded
\* supported files, in batches of one or two.
SessionDocuments ==
    {Document(DecodeText(f.type, f.bytes), f) :
        f \in {g \in UploadedFile : Supported(g.type)}}

SessionBatches == UNION {[1..n -> SessionDocuments] : n \in 1..2}

\* Chroma.from_documents(..., persist_directory=path) opens the collection
\* kept under the path, creating it when there is none, and adds the
\* chunks to it: what the directory already held stays.
persist(persisted, chunks) == persisted \o chunks

\* The Chroma object a build returns reads the collection under its
\* persist_directory at the time of the search.
Collection(handle, persisted) ==
    IF handle.persist_directory = VECTORSTORE_PATH
    THEN [chunks |-> persisted] ELSE [chunks |-> <<>>]

NewSession == [retriever |-> <<>>, built |-> <<>>, retrieved |-> <<>>]

InitShared ==
    /\ SessionInit
    /\ ProbeIdle
    /\ ApiIdle
    /\ AsksIdle
    /\ store = <<>>
    /\ sessions = [s \in Sessions |-> NewSession]

SharedFrame == UNCHANGED <<appVars, probe, apiVars, asks>>

\* Session s ingests docs: asetup_retriever, lines 45-48, and line 112 of
\* main().  A session ingests while its retriever is None.
SessionIngest(s, docs) ==
    /\ sessions[s].retriever = <<>>
    /\ LET chunks == split_documents(docs)
       IN /\ store' = persist(store, chunks)
          /\ sessions' = [sessions EXCEPT
                ![s] = [retriever |-> <<[persist_directory |->
                                           VECTORSTORE_PATH]>>,
                        built |-> chunks,
                        retrieved |-> <<>>]]
    /\ SharedFrame

\* Session s asks q: the retrieval of agenerate_response, line 58.
SessionAsk(s, q) ==
    /\ sessions[s].retriever # <<>>
    /\ sessions' = [sessions EXCEPT
          ![s].retrieved = aretrieve(Collection(sessions[s].retriever[1],
                                                store), q, TOP_K)]
    /\ UNCHANGED store
    /\ SharedFrame

NextShared ==
    \/ \E s \in Sessions, docs \in SessionBatches : SessionIngest(s, docs)
    \/ \E s \in Sessions, q \in Queries : SessionAsk(s, q)

SpecShared == InitShared /\ [][NextShared]_vars

\* ------------------------------------------------- components on their own
\* SpecProbe calls one component once, with inputs of its own, and records
\* what the call returned or raised.
Returned(v) == [raised |-> <<>>, value |-> v]

Raised(x) == [raised |-> <<x>>, value |-> <<>>]

\* The search methods of langchain's Chroma class.
ChromaMethods ==
    {"similarity_search", "similarity_search_with_score",
     "similarity_search_with_relevance_scores",
     "similarity_search_by_vector", "max_marginal_relevance_search"}

\* The distance Chroma reports with a hit: smaller is closer.
Distance(query, chunk) == IF Similar(query, chunk) THEN 0 ELSE 1

\* vector_db.similarity_search_with_score(query, top_k): the hits of
\* similarity_search, each paired with its distance.
similarity_search_with_score(vector_db, query, top_k) ==
    LET hits == similarity_search(vector_db, query, top_k)
    IN [i \in 1..Len(hits) |-> <<hits[i], Distance(query, hits[i])>>]

\* AsyncDocumentRetriever.aretrieve_with_scores, lines 23-34: the
\* attribute self.vector_db.similarity_search_with_scores is looked up
\* when the arguments of run_in_executor are evaluated.
aretrieve_with_scores(handle, query, top_k) ==
    IF "similarity_search_with_scores" \in ChromaMethods
    THEN Returned(similarity_search_with_score(handle, query, top_k))
    ELSE Raised("AttributeError")

\* RecursiveCharacterTextSplitter(chunk_size=Config.CHUNK_SIZE,
\* chunk_overlap=Config.CHUNK_OVERLAP) with the defaults of the class: the
\* separators "\n\n", "\n", " ", "", kept at the start of the piece that
\* follows them, and strip_whitespace.  A text is a sequence of characters.
Whitespace == {" ", "\n"}

Chars == {"a"} \cup Whitespace

Separators == << <<"\n", "\n">>, <<"\n">>, <<" ">>, <<>> >>

RECURSIVE lstrip(_)
lstrip(t) ==
    IF t # <<>> /\ Head(t) \in Whitespace THEN lstrip(Tail(t)) ELSE t

RECURSIVE rstrip(_)
rstrip(t) ==
    IF t # <<>> /\ t[Len(t)] \in Whitespace
    THEN rstrip(SubSeq(t, 1, Len(t) - 1)) ELSE t

\* text.strip() of _join_docs.  (Variant: only the left end is stripped.)
strip_left(t) == lstrip(t)

strip(t) == rstrip(lstrip(t))

StartsWith(t, sep) == Len(sep) <= Len(t) /\ SubSeq(t, 1, Len(sep)) = sep

\* re.search(separator, text) for a separator that is not empty.
Contains(t, sep) ==
    \E i \in 1..Len(t) : StartsWith(SubSeq(t, i, Len(t)), sep)

\* re.split with the separator kept: the text before the first separator,
\* then one piece per separator, which begins with it.  cur is the piece
\* being read.
RECURSIVE split_keep(_, _, _)
split_keep(t, sep, cur) ==
    IF t = <<>> THEN <<cur>>
    ELSE IF StartsWith(t, sep)
         THEN <<cur>> \o split_keep(SubSeq(t, Len(sep) + 1, Len(t)), sep, sep)
         ELSE split_keep(Tail(t), sep, Append(cur, Head(t)))

\* _split_text_with_regex: the pieces that are not empty; the empty
\* separator splits into characters.
split_text_with_regex(t, sep) ==
    LET pieces == IF sep = <<>> THEN [i \in 1..Len(t) |-> <<t[i]>>]
                  ELSE split_keep(t, sep, <<>>)
    IN SelectSeq(pieces, LAMBDA x : x # <<>>)

\* _join_docs: the pieces joined, stripped, and dropped when nothing is
\* left.
join_docs(docs) ==
    LET text == strip(Flatten(docs))
    IN IF text = <<>> THEN <<>> ELSE <<text>>

\* The while loop of _merge_splits: pieces leave the front of the current
\* chunk until what stays fits the overlap and leaves room for the next
\* piece.
RECURSIVE PopOverlap(_, _, _)
PopOverlap(current, total, len) ==
    IF total > CHUNK_OVERLAP \/ (total + len > CHUNK_SIZE /\ total > 0)
    THEN PopOverlap(Tail(current), total - Len(Head(current)), len)
    ELSE <<current, total>>

\* _merge_splits: pieces are gathered into one chunk until the next piece
\* would pass chunk_size.
RECURSIVE merge_loop(_, _, _)
merge_loop(splits, current, total) ==
    IF splits = <<>> THEN join_docs(current)
    ELSE LET d == Head(splits)
         IN IF total + Len(d) > CHUNK_SIZE /\ current # <<>>
            THEN LET kept == PopOverlap(current, total, Len(d))
                 IN join_docs(current)
                      \o merge_loop(Tail(splits), Append(kept[1], d),
                                    kept[2] + Len(d))
            ELSE merge_loop(Tail(splits), Append(current, d), total + Len(d))

merge_splits(splits) == merge_loop(splits, <<>>, 0)

\* The first separator of the list that occurs in the text; the empty one
\* always does.
SeparatorIndex(text, seps) ==
    LET found == {i \in 1..Len(seps) :
                     seps[i] = <<>> \/ Contains(text, seps[i])}
    IN IF found = {} THEN Len(seps)
       ELSE CHOOSE i \in found : \A j \in found : i <= j

\* _split_text: pieces shorter than chunk_size are merged, a longer piece
\* is split again with the separators that remain.
RECURSIVE split_text(_, _)
RECURSIVE split_walk(_, _, _)
split_text(text, seps) ==
    LET k == SeparatorIndex(text, seps)
        rest == IF seps[k] # <<>> /\ Contains(text, seps[k])
                THEN SubSeq(seps, k + 1, Len(seps)) ELSE <<>>
    IN split_walk(split_text_with_regex(text, seps[k]), rest, <<>>)

split_walk(splits, rest, good) ==
    IF splits = <<>> THEN merge_splits(good)
    ELSE IF Len(Head(splits)) < CHUNK_SIZE
         THEN split_walk(Tail(splits), rest, Append(good, Head(splits)))
         ELSE merge_splits(good)
                \o (IF rest = <<>> THEN <<Head(splits)>>
                    ELSE split_text(Head(splits), rest))
                \o split_walk(Tail(splits), rest, <<>>)

\* text_splitter.split_documents on one Document: a chunk per piece, with
\* the metadata of the Document.
split_document(doc) ==
    LET pieces == split_text(doc.page_content, Separators)
    IN [i \in 1..Len(pieces) |->
           [page_content |-> pieces[i], file_name |-> doc.file_name]]

Texts == UNION {[1..n -> Chars] : n \in 0..MaxText}

IndexContents == UNION {[1..n -> SessionDocuments] : n \in 0..MaxIndex}

InitProbe ==
    /\ SessionInit
    /\ StoreIdle
    /\ ApiIdle
    /\ AsksIdle
    /\ probe = <<>>

ProbeFrame == UNCHANGED <<appVars, store, sessions, apiVars, asks>>

ProbeRetrieve(chunks, query, top_k) ==
    /\ probe = <<>>
    /\ probe' = <<[op |-> "aretrieve", index |-> chunks, query |-> query,
                   top_k |-> top_k,
                   result |-> Returned(aretrieve(from_documents(chunks),
                                                 query, top_k))]>>
    /\ ProbeFrame

ProbeRetrieveWithScores(chunks, query, top_k) ==
    /\ probe = <<>>
    /\ probe' = <<[op |-> "aretrieve_with_scores", index |-> chunks,
                   query |-> query, top_k |-> top_k,
                   result |-> aretrieve_with_scores(from_documents(chunks),
                                                    query, top_k)]>>
    /\ ProbeFrame

\* aprocess_documents on a Document whose text fits in one chunk.
ProbeSplit(text) ==
    /\ probe = <<>>
    /\ Len(text) <= CHUNK_SIZE
    /\ LET doc == [page_content |-> text, file_name |-> "n1"]
       IN probe' = <<[op |-> "split_documents", document |-> doc,
                      result |-> Returned(split_document(doc))]>>
    /\ ProbeFrame

NextProbe ==
    \/ \E text \in Texts : ProbeSplit(text)
    \/ \E chunks \in IndexContents, q \in Queries, k \in 1..MaxTopK :
          ProbeRetrieve(chunks, q, k)
    \/ \E chunks \in IndexContents, q \in Queries, k \in 1..MaxTopK :
          ProbeRetrieveWithScores(chunks, q, k)

SpecProbe == InitProbe /\ [][NextProbe]_vars

\* ------------------------------------------------------------ upload API
\* api/main.py: the handlers of the document management API, one request
\* at a time.  files_db is a Python dict: the sequence of its records in
\* insertion order, each under its key "id".
MB == 1024 * 1024

ALLOWED_FILE_TYPES ==
    [pdf |-> {PDF}, csv |-> {CSV, "application/csv"},
     xlsx |-> {XLSX, "application/vnd.ms-excel"}]

MAX_FILE_SIZES == [pdf |-> 20 * MB, csv |-> 10 * MB, xlsx |-> 15 * MB]

\* A file name is the sequence of its parts between dots.
Upload(filename, content_type, content) ==
    [filename |-> filename, content_type |-> content_type,
     content |-> content]

\* The requests sent to POST /upload: a PDF, a CSV, a CSV over the size
\* limit, and three files the type validation rejects.
UploadRequests ==
    {Upload(<<"a", "pdf">>, PDF, "b1"),
     Upload(<<"b", "csv">>, CSV, "b2"), Upload(<<"b", "csv">>, CSV, "big"),
     Upload(<<"c", "txt">>, PLAIN, "b1"), Upload(<<"a", "pdf">>, CSV, "b1"),
     Upload(<<"d">>, PDF, "b1")}

\* len(content)
FileSize(content) ==
    IF content = "big" THEN 10 * MB + 1
    ELSE IF content = "b2" THEN 2 ELSE 1

FileIds == 1..MaxUploads

\* The seconds datetime.now() shows while the API serves the requests.
Seconds == {0, 1}

BadRequest(detail) == Raised([status |-> 400, detail |-> detail])

\* utils.validate_file_type
validate_file_type(filename, content_type) ==
    IF Len(filename) < 2 THEN BadRequest("File must have an extension")
    ELSE LET file_ext == filename[Len(filename)]
         IN IF file_ext \notin DOMAIN ALLOWED_FILE_TYPES
            THEN BadRequest("File type not allowed")
            ELSE IF content_type \notin ALLOWED_FILE_TYPES[file_ext]
                 THEN BadRequest("Invalid content type")
                 ELSE Returned(file_ext)

\* utils.validate_file_size
validate_file_size(file_size, file_type) ==
    IF file_size > MAX_FILE_SIZES[file_type]
    THEN BadRequest("File size exceeds maximum allowed size")
    ELSE Returned(<<>>)

\* The dict operations on files_db.
Keys(db) == {db[i].id : i \in DOMAIN db}

Lookup(db, id) == db[CHOOSE i \in DOMAIN db : db[i].id = id]

Put(db, id, rec) ==
    IF id \in Keys(db)
    THEN [i \in DOMAIN db |-> IF db[i].id = id THEN rec ELSE db[i]]
    ELSE Append(db, rec)

\* del files_db[file_id].  (Variant: the record stays.)
DelNothing(db, id) == db

Del(db, id) == SelectSeq(db, LAMBDA r : r.id # id)

\* The files under UPLOAD_DIR.
WriteFile(dir, path, content) ==
    [q \in DOMAIN dir \cup {path} |-> IF q = path THEN content ELSE dir[q]]

RemoveFile(dir, path) == [q \in DOMAIN dir \ {path} |-> dir[q]]

\* Lines 108-110: the timestamp has a resolution of one second.
FilePath(timestamp, filename) == <<timestamp, filename>>

InitApi ==
    /\ SessionInit
    /\ StoreIdle
    /\ ProbeIdle
    /\ AsksIdle
    /\ files_db = <<>>
    /\ upload_dir = <<>>
    /\ clock = 0
    /\ response = <<>>
    /\ ledger = [uploads |-> <<>>, deletes |-> 0]

ApiFrame == UNCHANGED <<appVars, store, sessions, probe, asks>>

Reply(op, status, body) == <<[op |-> op, status |-> status, body |-> body]>>

\* GET /files
list_files ==
    /\ response' = Reply("list", 200, files_db)
    /\ UNCHANGED <<files_db, upload_dir, clock, ledger>>
    /\ ApiFrame

\* GET /files/{file_id}
get_file(file_id) ==
    /\ response' = IF file_id \notin Keys(files_db)
                   THEN Reply("get", 404, <<"File with ID", file_id,
                                            "not found">>)
                   ELSE Reply("get", 200, Lookup(files_db, file_id))
    /\ UNCHANGED <<files_db, upload_dir, clock, ledger>>
    /\ ApiFrame

\* POST /upload.  The file is opened for writing, and so created or
\* emptied, before its size is validated.
upload_file(file) ==
    /\ Len(ledger.uploads) < MaxUploads
    /\ LET checked == validate_file_type(file.filename, file.content_type)
           file_path == FilePath(clock, file.filename)
           file_size == FileSize(file.content)
       IN IF checked.raised # <<>>
          THEN /\ response' = Reply("upload", 400, checked.raised[1].detail)
               /\ UNCHANGED <<files_db, upload_dir, ledger>>
          ELSE IF validate_file_size(file_size, checked.value).raised # <<>>
          THEN /\ upload_dir' = WriteFile(upload_dir, file_path, EmptyBytes)
               /\ response' =
                     Reply("upload", 400,
                           validate_file_size(file_size, checked.value)
                              .raised[1].detail)
               /\ UNCHANGED <<files_db, ledger>>
          ELSE LET file_id == Len(files_db) + 1
                   new_file == [id |-> file_id,
                                filename |-> file.filename,
                                file_type |-> checked.value,
                                content_type |-> file.content_type,
                                size |-> file_size,
                                upload_time |-> clock,
                                status |-> "uploaded",
                                file_path |-> file_path]
               IN /\ upload_dir' =
                        WriteFile(upload_dir, file_path, file.content)
                  /\ files_db' = Put(files_db, file_id, new_file)
                  /\ response' = Reply("upload", 201, new_file)
                  /\ ledger' =
                        [ledger EXCEPT !.uploads =
                            Append(@, [record |-> new_file,
                                       content |-> file.content,
                                       deleted |-> FALSE])]
    /\ UNCHANGED clock
    /\ ApiFrame

\* The ids a successful delete has removed are no longer in use.
MarkDeleted(uploads, file_id) ==
    [i \in DOMAIN uploads |->
        IF uploads[i].record.id = file_id
        THEN [uploads[i] EXCEPT !.deleted = TRUE] ELSE uploads[i]]

Deleted(file_id) ==
    [uploads |-> MarkDeleted(ledger.uploads, file_id),
     deletes |-> ledger.deletes + 1]

\* DELETE /files/{file_id}; removable tells whether os.remove succeeds.
delete_file(file_id, removable) ==
    /\ IF file_id \notin Keys(files_db)
       THEN /\ response' = Reply("delete", 404, <<"File with ID", file_id,
                                                  "not found">>)
            /\ UNCHANGED <<files_db, upload_dir, ledger>>
       ELSE LET file_path == Lookup(files_db, file_id).file_path
            IN IF file_path \in DOMAIN upload_dir
               THEN IF removable
                    THEN /\ upload_dir' = RemoveFile(upload_dir, file_path)
                         /\ files_db' = Del(files_db, file_id)
                         /\ response' =
                               Reply("delete", 200,
                                     <<"File", file_id,
                                       "deleted successfully">>)
                         /\ ledger' = Deleted(file_id)
                    ELSE /\ response' =
                               Reply("delete", 500,
                                     <<"Error deleting physical file",
                                       file_id, "OSError">>)
                         /\ UNCHANGED <<files_db, upload_dir, ledger>>
               ELSE /\ files_db' = Del(files_db, file_id)
                    /\ response' =
                          Reply("delete", 200,
                                <<"File", file_id,
                                  "record deleted successfully">>)
                    /\ ledger' = Deleted(file_id)
                    /\ UNCHANGED upload_dir
    /\ UNCHANGED clock
    /\ ApiFrame

\* A second passes.
Tick ==
    /\ clock + 1 \in Seconds
    /\ clock' = clock + 1
    /\ UNCHANGED <<files_db, upload_dir, response, ledger>>
    /\ ApiFrame

NextApi ==
    \/ list_files
    \/ \E file_id \in FileIds : get_file(file_id)
    \/ \E file \in UploadRequests : upload_file(file)
    \/ \E file_id \in FileIds, removable \in BOOLEAN :
          delete_file(file_id, removable)
    \/ Tick

SpecApi == InitApi /\ [][NextApi]_vars

\* ------------------------------------------------------- concurrent asks
\* Two runs of the ask block of main(), lines 126-150, on the session state
\* of one ready session.  Each is a coroutine that gives way at its awaits:
\* the retrieval, the prompt template, the language model.  The code holds
\* no lock between them.  Ask 1 is issued before ask 2.
AskIds == {1, 2}

NewAsk == [pc |-> "unissued", query |-> <<>>, prompt_args |-> <<>>,
           answer |-> <<>>]

InitAsks ==
    /\ SessionReady
    /\ StoreIdle
    /\ ProbeIdle
    /\ ApiIdle
    /\ asks = [a \in AskIds |-> NewAsk]

AsksFrame == UNCHANGED <<retriever, pc, uploaded_files, prompt, tasks,
                         completed, tmp, documents, doc_chunks, prompt_args,
                         outcome, calls, store, sessions, probe, apiVars>>

\* Lines 126-130: the question is shown and recorded, and the coroutine
\* awaits the retrieval of agenerate_response.
AskIssue(a, q) ==
    /\ asks[a].pc = "unissued"
    /\ \A b \in AskIds : b < a => asks[b].pc # "unissued"
    /\ messages' = Append(messages, <<"user", q>>)
    /\ asks' = [asks EXCEPT ![a].pc = "retrieve", ![a].query = <<q>>]
    /\ UNCHANGED chat_history
    /\ AsksFrame

\* Lines 58-65: the retrieval returns; the context and the history window
\* are formatted from the chat_history of this moment.
AskRetrieved(a) ==
    /\ asks[a].pc = "retrieve"
    /\ asks' = [asks EXCEPT
          ![a].pc = "prompt",
          ![a].prompt_args =
             <<[context |-> FormatContext(aretrieve(retriever[1],
                                                    asks[a].query[1],
                                                    TOP_K)),
                chat_history |-> FormatHistory(HistoryWindow(chat_history)),
                question |-> asks[a].query[1]]>>]
    /\ UNCHANGED <<chat_history, messages>>
    /\ AsksFrame

\* Lines 67-72: the template is rendered.
AskPrompted(a) ==
    /\ asks[a].pc = "prompt"
    /\ asks' = [asks EXCEPT ![a].pc = "llm"]
    /\ UNCHANGED <<chat_history, messages>>
    /\ AsksFrame

\* Lines 73-74 and 141-148: the model answers, the answer is shown and the
\* pair is appended.
AskAnswered(a, answer) ==
    /\ asks[a].pc = "llm"
    /\ asks' = [asks EXCEPT ![a].pc = "answered", ![a].answer = <<answer>>]
    /\ messages' = Append(messages, <<"assistant", answer>>)
    /\ chat_history' = HistoryAppend(chat_history, asks[a].query[1], answer)
    /\ AsksFrame

\* An await raises: line 150.
AskFailed(a) ==
    /\ asks[a].pc \in {"retrieve", "prompt", "llm"}
    /\ asks' = [asks EXCEPT ![a].pc = "failed"]
    /\ UNCHANGED <<chat_history, messages>>
    /\ AsksFrame

NextAsks ==
    \/ \E a \in AskIds, q \in Queries : AskIssue(a, q)
    \/ \E a \in AskIds : AskRetrieved(a)
    \/ \E a \in AskIds : AskPrompted(a)
    \/ \E a \in AskIds, answer \in Answers : AskAnswered(a, answer)
    \/ \E a \in AskIds : AskFailed(a)

SpecAsks == InitAsks /\ [][NextAsks]_vars

\* ------------------------------------------------------------ properties
IngestStages == {"gather", "split", "embed"}

AskStages == {"retrieve", "prompt", "llm"}

AssistantMessages == Len(SelectSeq(messages, LAMBDA m : m[1] = "assistant"))

\* C1: while the session has no retriever (Empty) no question is taken: the
\* chat input is not reached, no ask is in progress, the run has made no
\* retrieval and no language-model call, and a run that ended shows the
\* upload warning or an ingestion error.
C1_EmptyNeverAsks ==
    retriever = <<>> =>
        /\ pc \notin {"chat"} \cup AskStages
        /\ prompt = <<>>
        /\ calls.retrieve = 0
        /\ calls.llm = 0
        /\ pc = "idle" =>
              outcome \in {"none", WarnUpload, NoValidDocuments,
                           ErrorProcessing}

C1_Witness ==
    /\ retriever = <<>>
    /\ pc = "idle"
    /\ outcome = ErrorProcessing
    /\ calls.llm = 0

AllUnsupported(files) ==
    /\ files # <<>>
    /\ \A i \in DOMAIN files : files[i].type \notin SupportedTypes

\* The step that ends the ingest of the batch in uploaded_files.
IngestEnds == pc \in IngestStages /\ pc' \notin IngestStages

\* C2 (as claimed): the ingest of a non-empty batch of unsupported files
\* always ends with "no valid documents", starts no index build and leaves
\* the session Empty.
C2_Original ==
    [][(IngestEnds /\ AllUnsupported(uploaded_files)) =>
          /\ outcome' = NoValidDocuments
          /\ calls'.build = 0
          /\ retriever' = <<>>]_vars

\* C2 (amended): the ingest of a non-empty batch of unsupported files ends
\* with "no valid documents", or with the ingestion error when the write of
\* a scratch file failed, and with nothing else; either way it ends at the
\* gather, no index build is started, and the session stays Empty.
C2_UnsupportedOnlyStaysEmpty ==
    [][(IngestEnds /\ AllUnsupported(uploaded_files)) =>
          /\ pc = "gather"
          /\ pc' = "idle"
          /\ outcome' = IF GatherFailed(tasks) THEN ErrorProcessing
                        ELSE NoValidDocuments
          /\ \A i \in DOMAIN tasks :
                tasks[i].pc \in {"done", "failed"} => tasks[i].result = <<>>
          /\ calls'.build = 0
          /\ documents' = <<>>
          /\ retriever' = <<>>]_vars

C2_Witness ==
    /\ pc = "idle"
    /\ outcome = NoValidDocuments
    /\ Len(calls.parse) >= 2
    /\ calls.build = 0
    /\ retriever = <<>>

\* The results of the first n parse tasks, in submission order, absent
\* results left out.
RECURSIVE SubmittedDocs(_)
SubmittedDocs(n) ==
    IF n = 0 THEN <<>> ELSE SubmittedDocs(n - 1) \o tasks[n].result

\* The names of the supported files among the first n, in submission order.
RECURSIVE SupportedNames(_, _)
SupportedNames(files, n) ==
    IF n = 0 THEN <<>>
    ELSE SupportedNames(files, n - 1) \o
         (IF files[n].type \in SupportedTypes THEN <<files[n].name>> ELSE <<>>)

DocNames(docs) == [k \in 1..Len(docs) |-> docs[k].file_name]

\* C3: the Document sequence handed to the index build is the sequence of
\* the parse results in submission order with the absent ones removed,
\* whatever order the parse tasks completed in: the documents are those of
\* the supported files, in the order the files were submitted.
C3_SubmissionOrderKept ==
    pc \in {"split", "embed"} =>
        /\ documents = SubmittedDocs(Len(uploaded_files))
        /\ DocNames(documents) =
              SupportedNames(uploaded_files, Len(uploaded_files))

\* Two documents are handed over, and the later file's parse finished first.
C3_Witness ==
    /\ pc = "split"
    /\ Len(documents) = 2
    /\ Len(completed) = 2
    /\ completed[1] > completed[2]
    /\ documents[1] # documents[2]
    /\ documents[1] = tasks[1].result[1]

\* C4: while the chunker or the index build runs, every parse task of the
\* ingest has returned (none is still running, none was left out), and the
\* build has the whole filtered document sequence: one document per
\* supported file, and at the embedding the chunks of all of them.
C4_BuildAfterAllParses ==
    pc \in {"split", "embed"} =>
        /\ DOMAIN tasks = DOMAIN uploaded_files
        /\ \A i \in DOMAIN tasks : tasks[i].pc = "done"
        /\ Len(documents) =
              Cardinality({i \in DOMAIN uploaded_files :
                              uploaded_files[i].type \in SupportedTypes})
        /\ pc = "embed" => doc_chunks = split_documents(documents)
        /\ calls.build = 1

C4_Witness ==
    /\ pc = "embed"
    /\ Len(tasks) >= 2
    /\ Len(doc_chunks) >= 2
    /\ \A i \in DOMAIN tasks : tasks[i].pc = "done"

\* The scratch file that parse call i created is still in /tmp.
ScratchFileRemains(i) ==
    /\ tmp[tasks[i].path] # <<>>
    /\ tmp[tasks[i].path][1].inode = i

\* C5: once a parse call has finished (returned, raised or was cancelled) the
\* scratch file it created no longer exists.
C5_ScratchFileRemoved ==
    \A i \in DOMAIN tasks :
        tasks[i].pc \in Finished => ~ScratchFileRemains(i)

\* C6: an ingest that ends in failure (a parse task, the chunker or the
\* index build raised, or no document was valid) leaves the session's
\* retriever as it was; the retriever is only ever set by the ingest that
\* ends with a finished build, and then to the handle of that whole build.
C6_FailedIngestKeepsHandle ==
    [][/\ (IngestEnds /\ outcome' \in {ErrorProcessing, NoValidDocuments})
            => retriever' = retriever
       /\ (pc \in IngestStages /\ GatherFailed(tasks))
            => retriever' = retriever
       /\ retriever' # retriever
            => /\ pc = "embed"
               /\ retriever = <<>>
               /\ doc_chunks = split_documents(documents)
               /\ retriever' = <<from_documents(doc_chunks)>>]_vars

\* An ingest whose build had started has failed, and the session is Empty.
C6_Witness ==
    /\ pc = "idle"
    /\ outcome = ErrorProcessing
    /\ calls.build = 1
    /\ retriever = <<>>

IsPrefix(s, t) == Len(s) <= Len(t) /\ SubSeq(t, 1, Len(s)) = s

\* C7: chat_history changes only by the append of one pair (question,
\* answer), made by the step in which the language model answered the
\* question of the run; a step that ends an ask with an error leaves it
\* unchanged; no pair is ever removed, rewritten or reordered.
C7_HistoryAppendOnly ==
    [][/\ IsPrefix(chat_history, chat_history')
       /\ chat_history' # chat_history =>
             /\ pc = "llm"
             /\ outcome' = "answer"
             /\ Len(chat_history') = Len(chat_history) + 1
             /\ chat_history'[Len(chat_history')][1] = prompt[1]
             /\ chat_history'[Len(chat_history')][2] \in Answers
             /\ messages'[Len(messages')] =
                   <<"assistant", chat_history'[Len(chat_history')][2]>>
       /\ (pc \in AskStages /\ outcome' = ErrorGenerating) =>
             chat_history' = chat_history]_vars

\* Four answers are recorded and one more ask has failed.
C7_Witness ==
    /\ Len(chat_history) = 4
    /\ UserMessages = 5
    /\ pc = "idle"
    /\ outcome = ErrorGenerating

\* C8: the chat history given to the prompt is the last min(n, 3) pairs of
\* the n pairs chat_history holds when the ask is made, in their order; the
\* pair of the ask under way is not among them (it is appended only after
\* the answer), and chat_history itself keeps every pair: one per answer
\* given so far.
C8_PromptHistoryLastThree ==
    /\ Len(chat_history) = AssistantMessages
    /\ pc \in {"prompt", "llm"} =>
          LET n == Len(chat_history)
              k == IF n < 3 THEN n ELSE 3
              shown == prompt_args[1].chat_history
          IN /\ Len(shown) = k
             /\ \A j \in 1..k :
                   shown[j] = <<"Q: ", chat_history[n - k + j][1],
                                "A: ", chat_history[n - k + j][2]>>
             /\ prompt_args[1].question = prompt[1]
             /\ messages[Len(messages)] = <<"user", prompt[1]>>

\* An ask is made with four pairs recorded, the oldest unlike the newest.
C8_Witness ==
    /\ pc = "llm"
    /\ Len(chat_history) = 4
    /\ chat_history[1] # chat_history[4]
    /\ Len(prompt_args[1].chat_history) = 3

\* C9: no stage is retried.  In a run each file gets one parse call and a
\* finished parse task is not run again, the index build, the retrieval and
\* the language model are each invoked at most once; and the step that ends
\* an ingest or an ask on a failure ends the run with the error of that
\* stage: "Error processing documents" or "Error generating response".
C9_NoRetryErrorShown ==
    [][/\ \A i \in DOMAIN calls'.parse : calls'.parse[i] <= 1
       /\ calls'.build <= 1
       /\ calls'.retrieve <= 1
       /\ calls'.llm <= 1
       /\ pc' = "gather" =>
             /\ DOMAIN tasks' = DOMAIN uploaded_files'
             /\ DOMAIN calls'.parse = DOMAIN uploaded_files'
       /\ (pc = "gather" /\ pc' = "gather") =>
             \A i \in DOMAIN tasks :
                 tasks[i].pc \in Finished => tasks'[i] = tasks[i]
       /\ (pc \in IngestStages /\ pc' # pc /\ GatherFailed(tasks)) =>
             (pc' = "idle" /\ outcome' = ErrorProcessing)
       /\ (pc \in {"split", "embed"} /\ pc' \notin IngestStages
             /\ retriever' = <<>>) =>
             (pc' = "idle" /\ outcome' = ErrorProcessing)
       /\ (pc \in AskStages /\ pc' \notin AskStages
             /\ chat_history' = chat_history) =>
             (pc' = "idle" /\ outcome' = ErrorGenerating)]_vars

\* The language model was called once, failed, and the run ended with the
\* generation error.
C9_Witness ==
    /\ pc = "idle"
    /\ outcome = ErrorGenerating
    /\ calls.retrieve = 1
    /\ calls.llm = 1
    /\ calls.build = 1

Mixed(files) ==
    /\ \E i \in DOMAIN files : files[i].type \in SupportedTypes
    /\ \E i \in DOMAIN files : files[i].type \notin SupportedTypes

\* C10 (as claimed): the ingest of every batch that mixes supported and
\* unsupported types succeeds: it ends with the session Ready, the index
\* built from the documents of the supported files.
C10_Original ==
    [][(IngestEnds /\ Mixed(uploaded_files)) =>
          /\ retriever' # <<>>
          /\ DocNames(retriever'[1].chunks) =
                SupportedNames(uploaded_files, Len(uploaded_files))]_vars

\* C10 (amended): in the ingest of a batch that mixes supported and
\* unsupported types, a parse call of an unsupported file that returns
\* returns absent, and no document is made for such a file.  The ingest
\* either ends with the session Ready, and then every parse task had
\* returned and the index holds exactly the documents returned for the
\* supported files, in submission order; or it ends with the ingestion
\* error and the session Empty, and then a parse task had raised or the
\* build had started and raised.  It never ends with "no valid documents".
C10_MixedBatchSkipsUnsupported ==
    [][/\ (pc = "gather" /\ Mixed(uploaded_files)) =>
             \A i \in DOMAIN tasks :
                 uploaded_files[i].type \notin SupportedTypes
                     => tasks[i].result = <<>>
       /\ (IngestEnds /\ Mixed(uploaded_files)) =>
             IF retriever' # <<>>
             THEN /\ \A i \in DOMAIN tasks : tasks[i].pc = "done"
                  /\ retriever'[1].chunks = SubmittedDocs(Len(uploaded_files))
                  /\ DocNames(retriever'[1].chunks) =
                        SupportedNames(uploaded_files, Len(uploaded_files))
             ELSE /\ outcome' = ErrorProcessing
                  /\ pc' = "idle"
                  /\ GatherFailed(tasks) \/ pc \in {"split", "embed"}]_vars

\* The session became Ready from a batch with more files than documents.
C10_Witness ==
    /\ pc = "chat"
    /\ retriever # <<>>
    /\ calls.build = 1
    /\ Len(retriever[1].chunks) >= 1
    /\ Len(retriever[1].chunks) < Len(calls.parse)

\* C11: once the session is ready (the retriever is set), no step of any
\* later run - an ingest attempt, an ask that fails or succeeds, a run with
\* an emptied upload selection - unsets the retriever.
C11_ReadyIsStable == [][retriever # <<>> => retriever' # <<>>]_vars

\* A ready session whose ask failed and whose next run found the upload
\* selection emptied.
C11_Witness ==
    /\ retriever # <<>>
    /\ outcome = WarnUpload
    /\ UserMessages > 0
    /\ chat_history = <<>>

\* C12: a build creates or overwrites the store, so a retrieval returns
\* only chunks given to the build of the asking session: a question asked
\* in one session never receives a chunk that only another session
\* ingested.
C12_SessionsIsolated ==
    \A s \in Sessions :
        \A i \in DOMAIN sessions[s].retrieved :
            \E j \in DOMAIN sessions[s].built :
                sessions[s].retrieved[i] = sessions[s].built[j]

\* The order in which the index ranks its chunks for a query: the similar
\* ones first, each group in the order of insertion.
Ranking(chunks, query) ==
    SelectSeq(chunks, LAMBDA c : Similar(query, c))
        \o SelectSeq(chunks, LAMBDA c : ~Similar(query, c))

Retrievals == {"aretrieve", "aretrieve_with_scores"}

\* The documents of a result list, with or without scores.
Hits(call) ==
    IF call.op = "aretrieve" THEN call.result.value
    ELSE [i \in 1..Len(call.result.value) |-> call.result.value[i][1]]

\* C13: for every query and every top_k >= 1, aretrieve and
\* aretrieve_with_scores return at most top_k results, in the order of the
\* index's similarity search; the ask requests top_k = 3.
C13_AtMostTopKInIndexOrder ==
    /\ TOP_K = 3
    /\ \A i \in DOMAIN probe :
          probe[i].op \in Retrievals =>
             /\ probe[i].result.raised = <<>>
             /\ Len(Hits(probe[i])) <= probe[i].top_k
             /\ IsPrefix(Hits(probe[i]),
                         Ranking(probe[i].index, probe[i].query))

AllWhitespace(t) == \A i \in DOMAIN t : t[i] \in Whitespace

\* t is c with whitespace, and nothing else, before and after it.
Surrounds(t, c) ==
    \E a \in 0..Len(t) :
        /\ a + Len(c) <= Len(t)
        /\ SubSeq(t, a + 1, a + Len(c)) = c
        /\ AllWhitespace(SubSeq(t, 1, a))
        /\ AllWhitespace(SubSeq(t, a + Len(c) + 1, Len(t)))

SplitCalls == {i \in DOMAIN probe : probe[i].op = "split_documents"}

\* C14 as claimed: every Document whose text is at most the maximum chunk
\* size, the empty text and text with leading or trailing whitespace
\* included, is split into exactly one chunk whose text is the Document's.
C14_Original ==
    \A i \in SplitCalls :
        /\ Len(probe[i].result.value) = 1
        /\ probe[i].result.value[1].page_content =
              probe[i].document.page_content

\* C14: a Document whose text is at most the maximum chunk size is split
\* into no chunk when the text is empty or all whitespace, and otherwise
\* into exactly one chunk, whose text is the Document's without its leading
\* and trailing whitespace (the Document's text itself when it has none).
C14_ShortTextOneStrippedChunk ==
    \A i \in SplitCalls :
        LET text == probe[i].document.page_content
            chunks == probe[i].result.value
        IN IF AllWhitespace(text) THEN chunks = <<>>
           ELSE /\ Len(chunks) = 1
                /\ chunks[1].page_content # <<>>
                /\ Head(chunks[1].page_content) \notin Whitespace
                /\ chunks[1].page_content[Len(chunks[1].page_content)]
                      \notin Whitespace
                /\ Surrounds(text, chunks[1].page_content)
                /\ chunks[1].file_name = probe[i].document.file_name

\* A text with whitespace at both ends and inside has been split.
C14_Witness ==
    \E i \in SplitCalls :
        /\ probe[i].document.page_content = <<"\n", "a", " ", "a">>
        /\ probe[i].result.value # <<>>

\* The uploads whose id no successful delete has removed since.
LiveUploads ==
    {i \in DOMAIN ledger.uploads : ~ledger.uploads[i].deleted}

\* C15: after any sequence of uploads and deletes, the id a successful
\* upload returned gets the record of that upload (same filename) for as
\* long as the id has not been deleted: no later upload changes the record
\* kept under an id in use.
C15_IdKeepsItsUpload ==
    \A i \in LiveUploads :
        LET uploaded == ledger.uploads[i].record
        IN /\ uploaded.id \in Keys(files_db)
           /\ Lookup(files_db, uploaded.id).filename = uploaded.filename

\* C16: list_files returns exactly one record for each successful upload
\* whose id has not been deleted: the number of records is the number of
\* successful uploads minus the number of successful deletes.
C16_ListCountsLiveUploads ==
    /\ Len(files_db) = Len(ledger.uploads) - ledger.deletes
    /\ \A i \in LiveUploads :
          \E j \in DOMAIN files_db : files_db[j] = ledger.uploads[i].record
    /\ response # <<>> /\ response[1].op = "list"
          => Len(response[1].body) = Len(ledger.uploads) - ledger.deletes

\* The step serves DELETE /files/{file_id}.
DeleteServed(file_id) ==
    /\ clock' = clock
    /\ response' # <<>>
    /\ response'[1].op = "delete"
    /\ response'[1].body[2] = file_id

\* The step serves GET /files/{file_id}.
GetServed(file_id) ==
    /\ clock' = clock
    /\ response' # <<>>
    /\ response'[1].op = "get"
    /\ response'[1].status = 404 => response'[1].body[2] = file_id
    /\ response'[1].status = 200 => response'[1].body.id = file_id

IdsWithRecord == {files_db[i].id : i \in DOMAIN files_db}

PathOf(file_id) ==
    LET i == CHOOSE k \in DOMAIN files_db : files_db[k].id = file_id
    IN files_db[i].file_path

\* C17 as claimed: deleting the id of an uploaded file that has not been
\* deleted answers "File {id} deleted successfully", removes the record and
\* the physical file, and the id is then unknown to get and delete.
C17_Original ==
    [][\A file_id \in FileIds :
          file_id \in IdsWithRecord /\ DeleteServed(file_id)
          => /\ response'[1].status = 200
             /\ response'[1].body = <<"File", file_id,
                                      "deleted successfully">>
             /\ file_id \notin {files_db'[i].id : i \in DOMAIN files_db'}
             /\ PathOf(file_id) \notin DOMAIN upload_dir']_vars

\* C17: deleting an id that has a record either removes the record and
\* the physical file and answers "File {id} deleted successfully", or, when
\* the record's physical file does not exist, removes the record and
\* answers "File {id} record deleted successfully", or, when the file
\* cannot be removed, answers 500 and changes nothing.  An id without a
\* record gets 404 from get and from delete.
C17_DeleteOutcomes ==
    [][\A file_id \in FileIds :
          /\ file_id \in IdsWithRecord /\ DeleteServed(file_id)
             => IF PathOf(file_id) \in DOMAIN upload_dir
                THEN \/ /\ response'[1].status = 200
                        /\ response'[1].body =
                              <<"File", file_id, "deleted successfully">>
                        /\ file_id \notin
                              {files_db'[i].id : i \in DOMAIN files_db'}
                        /\ Len(files_db') = Len(files_db) - 1
                        /\ PathOf(file_id) \notin DOMAIN upload_dir'
                     \/ /\ response'[1].status = 500
                        /\ files_db' = files_db
                        /\ upload_dir' = upload_dir
                ELSE /\ response'[1].status = 200
                     /\ response'[1].body =
                           <<"File", file_id, "record deleted successfully">>
                     /\ file_id \notin
                           {files_db'[i].id : i \in DOMAIN files_db'}
                     /\ Len(files_db') = Len(files_db) - 1
                     /\ upload_dir' = upload_dir
          /\ /\ file_id \notin IdsWithRecord
             /\ DeleteServed(file_id) \/ GetServed(file_id)
             => /\ response'[1].status = 404
                /\ files_db' = files_db
                /\ upload_dir' = upload_dir]_vars

\* The record and the physical file of an upload have just been deleted.
C17_Witness ==
    /\ response # <<>>
    /\ response[1].op = "delete"
    /\ response[1].status = 200
    /\ response[1].body[3] = "deleted successfully"
    /\ ledger.deletes = 1
    /\ files_db = <<>>
    /\ DOMAIN upload_dir = {}

\* C18: no two records of files_db share a file_path, also when two
\* uploads carry the same filename within one second, so that deleting a
\* record never removes the physical file of another record.
C18_FilePathsUnique ==
    \A i, j \in DOMAIN files_db :
        files_db[i].file_path = files_db[j].file_path => i = j

\* The asks that have finished their retrieval and not yet appended.
InFlight == {a \in DOMAIN asks : asks[a].pc \in {"prompt", "llm"}}

PairOf(a) == <<asks[a].query[1], asks[a].answer[1]>>

\* The pair as the prompt history shows it.
ShownPairOf(a) == <<"Q: ", asks[a].query[1], "A: ", asks[a].answer[1]>>

\* C19: the asks of one session are serialized: at most one ask is between
\* its retrieval and its append, the pairs are appended in the order the
\* questions were issued, and the prompt history of the later ask contains
\* the pair of the earlier one.
C19_AsksSerialized ==
    /\ Cardinality(InFlight) <= 1
    /\ \A a, b \in DOMAIN asks :
          a < b /\ asks[a].pc = "answered"
                /\ asks[b].pc \in {"prompt", "llm", "answered"}
          => \E i \in DOMAIN asks[b].prompt_args[1].chat_history :
                asks[b].prompt_args[1].chat_history[i] = ShownPairOf(a)
    /\ \A a, b \in DOMAIN asks :
          a < b /\ asks[a].pc = "answered" /\ asks[b].pc = "answered"
          => chat_history = <<PairOf(a), PairOf(b)>>

\* The parse tasks of the ingest under way.
RunningTasks == IF pc = "gather" THEN DOMAIN tasks ELSE {}

\* C20: concurrent parse tasks do not interfere through /tmp, files of the
\* same name included: the decoder of each task reads exactly the bytes of
\* its own file, and the scratch file a task has written stays, with those
\* bytes, until its own decoder has read it - no other task's open, write
\* or cleanup empties, overwrites or removes it.
C20_ParseTasksDoNotInterfere ==
    \A i \in RunningTasks :
        /\ tasks[i].read # <<>> => tasks[i].read[1] = uploaded_files[i].bytes
        /\ tasks[i].pc = "decoding"
             => /\ tmp[tasks[i].path] # <<>>
                /\ tmp[tasks[i].path][1].content = uploaded_files[i].bytes

\* C21: ingestion succeeds at most once per session: once the retriever is
\* set, every step of every later run leaves the retriever, and with it the
\* chunks of its index, unchanged, and no parse task and no index build is
\* started, whatever batch the uploader presents.
C21_IngestOnce ==
    [][retriever # <<>>
         => /\ retriever' = retriever
            /\ tasks' = <<>>
            /\ pc' \notin {"gather", "split", "embed"}
            /\ calls'.parse = <<>> \/ calls'.parse = calls.parse
            /\ calls'.build <= calls.build]_vars

\* A ready session, after a question, in a later run that was presented a
\* batch and went straight to the chat.
C21_Witness ==
    /\ retriever # <<>>
    /\ pc = "chat"
    /\ UserMessages > 0
    /\ calls = NoCalls
    /\ tasks = <<>>

\* The step serves a POST /upload that is rejected with 400.
UploadRejected ==
    /\ clock' = clock
    /\ response' # <<>>
    /\ response'[1].op = "upload"
    /\ response'[1].status = 400

\* C22: a rejected upload (no extension, extension not allowed, content
\* type not matching the extension, size above the maximum of its type)
\* leaves the upload store unchanged: no record is added to files_db and no
\* file, empty or not, is left in the upload directory for it.
C22_RejectedUploadLeavesNothing ==
    [][UploadRejected
         => /\ files_db' = files_db
            /\ upload_dir' = upload_dir]_vars

====
